---- MODULE Spec2Model ----
(***************************************************************************)
(* Model of the Elasticsearch sink's configuration resolution              *)
(* (src/sinks/elasticsearch/common.rs): ElasticsearchCommon::parse_config, *)
(* ElasticsearchCommon::parse_many, ElasticsearchCommon::healthcheck,      *)
(* get_version and get.                                                    *)
(*                                                                         *)
(* Strings that the code formats or encodes are sequences of one-character *)
(* strings; Option<usize> is an integer with None as -1.                   *)
(***************************************************************************)
EXTENDS Integers, Sequences, FiniteSets, TLC

VARIABLES
    pc,         \* "idle" | "resolving" | "done": position of the parse_many call
    calls,      \* number of parse_many calls started so far
    config,     \* the ElasticsearchConfig of the current call
    todo,       \* the endpoints the current call iterates over
    version,    \* parse_many's local `version: Option<usize>` (the shared slot)
    commons,    \* the Vec<ElasticsearchCommon> built so far
    resolved,   \* per descriptor: parse_config's local `version` (line 129)
    probes,     \* get_version invocations during the current call
    sent,       \* HTTP requests handed to client.send during the current call
    lastProbe,  \* the outcome get_version met in the current call
    result,     \* "pending" | "Ok" | the error parse_many returned
    hc          \* the last healthcheck: descriptor index, outcome met, result

vars == <<pc, calls, config, todo, version, commons, resolved, probes, sent,
          lastProbe, result, hc>>

----------------------------------------------------------------------------
(* Bounds of the model *)

MaxEndpoints == 2       \* longest `endpoints` list
MaxCalls == 2           \* parse_many calls in one behaviour
MaxProbeVersion == 8    \* largest version a probed server reports

----------------------------------------------------------------------------
(* Option<usize> *)

NoneV == -1

IsSome(o) == o # NoneV

----------------------------------------------------------------------------
(* Strings *)

STimeout == <<"t", "i", "m", "e", "o", "u", "t">>
SPipeline == <<"p", "i", "p", "e", "l", "i", "n", "e">>
SBulk == <<"/", "_", "b", "u", "l", "k", "?">>

VersionPath == "/_cluster/state/version"
HealthPath == "/_cluster/health"

Digit(d) == <<"0", "1", "2", "3", "4", "5", "6", "7", "8", "9">>[d + 1]

RECURSIVE U64ToString(_)
U64ToString(n) == IF n < 10 THEN <<Digit(n)>>
                  ELSE U64ToString(n \div 10) \o <<Digit(n % 10)>>

\* format!("{}s", tower_request.timeout.as_secs())
FormatTimeout(secs) == U64ToString(secs) \o <<"s">>

\* url::form_urlencoded byte serialisation: unreserved bytes are kept,
\* a space becomes '+', every other byte is percent-encoded.
Unreserved == {"a", "b", "c", "d", "e", "f", "g", "h", "i", "j", "k", "l", "m",
               "n", "o", "p", "q", "r", "s", "t", "u", "v", "w", "x", "y", "z",
               "0", "1", "2", "3", "4", "5", "6", "7", "8", "9",
               "*", "-", ".", "_"}

PercentCode(c) ==
    CASE c = "&" -> <<"%", "2", "6">>
      [] c = "=" -> <<"%", "3", "D">>
      [] c = "+" -> <<"%", "2", "B">>
      [] c = "%" -> <<"%", "2", "5">>
      [] c = "/" -> <<"%", "2", "F">>
      [] OTHER -> <<"%", "3", "F">>

EncodeByte(c) == IF c \in Unreserved THEN <<c>>
                 ELSE IF c = " " THEN <<"+">>
                 ELSE PercentCode(c)

RECURSIVE ByteSerialize(_)
ByteSerialize(s) == IF s = <<>> THEN <<>>
                    ELSE EncodeByte(Head(s)) \o ByteSerialize(Tail(s))

\* Serializer::append_pair: '&' before every pair but the first, then
\* name '=' value, both byte-serialised.
AppendPair(target, name, value) ==
    (IF target = <<>> THEN <<>> ELSE target \o <<"&">>)
        \o ByteSerialize(name) \o <<"=">> \o ByteSerialize(value)

----------------------------------------------------------------------------
(* Endpoint strings and what the URI parsers make of them *)

EndpointStrings == {"http://h1:9200", "http://u:p@h2:9200/", "/path", "ht tp://bad"}

\* format!("{}/_test", endpoint).parse::<Uri>() succeeds
UriParses(endpoint) == endpoint # "ht tp://bad"

\* uri.host(); "" is None
UriHost(endpoint) ==
    CASE endpoint = "http://h1:9200" -> "h1"
      [] endpoint = "http://u:p@h2:9200/" -> "h2"
      [] OTHER -> ""

NoAuth == [kind |-> "none", user |-> "", password |-> ""]

ConfigBasic == [kind |-> "basic", user |-> "admin", password |-> "secret"]

\* endpoint.parse::<UriSerde>(): the credentials embedded in the URL
UriSerdeAuth(endpoint) ==
    IF endpoint = "http://u:p@h2:9200/"
    THEN [kind |-> "basic", user |-> "u", password |-> "p"]
    ELSE NoAuth

\* endpoint.parse::<UriSerde>(): the URI without its credentials, as text
UriSerdeUri(endpoint) ==
    CASE endpoint = "http://h1:9200" -> <<"http://h1:9200">>
      [] endpoint = "http://u:p@h2:9200/" -> <<"http://h2:9200", "/">>
      [] OTHER -> <<endpoint>>

RECURSIVE TrimEndSlashes(_)
TrimEndSlashes(s) ==
    IF s # <<>> /\ s[Len(s)] = "/" THEN TrimEndSlashes(SubSeq(s, 1, Len(s) - 1))
    ELSE s

\* Test the configured host (lines 52-62)
ValidateHost(endpoint) ==
    IF ~UriParses(endpoint) THEN "InvalidHost"
    ELSE IF UriHost(endpoint) = "" THEN "HostMustIncludeHostname"
    ELSE "ok"

----------------------------------------------------------------------------
(* Authentication *)

\* authorization: Basic credentials of the configuration, else None
Authorization(cfg) == IF cfg.auth = "basic" THEN ConfigBasic ELSE NoAuth

\* MaybeAuth::choose_one: two differing sets of credentials are a conflict,
\* otherwise whichever is present is chosen.
ChooseOne(self, other) ==
    IF self # NoAuth /\ other # NoAuth /\ self # other
    THEN [err |-> TRUE, auth |-> NoAuth]
    ELSE [err |-> FALSE, auth |-> IF self # NoAuth THEN self ELSE other]

\* aws_auth: a credentials provider for ElasticsearchAuth::Aws, else None
AwsAuth(cfg, credsOk) ==
    IF cfg.auth # "aws" THEN [err |-> "none", aws |-> "none"]
    ELSE IF cfg.region = "none" THEN [err |-> "RegionRequired", aws |-> "none"]
    ELSE IF ~credsOk THEN [err |-> "CredentialsError", aws |-> "none"]
    ELSE [err |-> "none", aws |-> "provider"]

----------------------------------------------------------------------------
(* Query parameters and the bulk URL *)

DefaultTimeoutSecs == 60

Insert(m, k, v) == [x \in (DOMAIN m) \cup {k} |-> IF x = k THEN v ELSE m[x]]

\* tower_request.timeout.as_secs()
TimeoutSecs(cfg) == IF cfg.timeout_secs = <<>> THEN DefaultTimeoutSecs
                    ELSE cfg.timeout_secs[1]

\* faulty variant: a static parameter named timeout is kept
WithTimeoutIfAbsent(params, secs) ==
    IF STimeout \in DOMAIN params THEN params
    ELSE Insert(params, STimeout, FormatTimeout(secs))

WithTimeout(params, secs) == Insert(params, STimeout, FormatTimeout(secs))

WithPipeline(params, pipeline) ==
    IF pipeline = <<>> THEN params ELSE Insert(params, SPipeline, pipeline[1])

\* query_params (lines 96-104)
MergeQuery(cfg) == WithPipeline(WithTimeout(cfg.query, TimeoutSecs(cfg)), cfg.pipeline)

\* the orders in which a HashMap may be iterated
KeyOrders(m) ==
    {o \in [1..Cardinality(DOMAIN m) -> DOMAIN m] :
        \A i, j \in DOMAIN o : i # j => o[i] # o[j]}

RECURSIVE SerializePairs(_, _, _)
SerializePairs(m, order, target) ==
    IF order = <<>> THEN target
    ELSE SerializePairs(m, Tail(order), AppendPair(target, Head(order), m[Head(order)]))

\* bulk_url (lines 106-112)
BulkUrl(base_url, params, order) == base_url \o SBulk \o SerializePairs(params, order, <<>>)

----------------------------------------------------------------------------
(* What the network and the HTTP client answer *)

ProbeStatuses == {200, 503}
HealthStatuses == {200, 201, 503}
ProbeVersions == 6..MaxProbeVersion

NoResponse(kind) == [kind |-> kind, status |-> 0, json |-> FALSE, version |-> NoneV]

\* kind: the first step of the request that fails, or "response";
\* json: the body deserialises as ClusterState; version: its version field
ProbeOutcomes ==
    {NoResponse(k) : k \in {"client_error", "build_error", "sign_error", "transport_error"}}
    \cup {[kind |-> "response", status |-> s, json |-> FALSE, version |-> NoneV] :
            s \in ProbeStatuses}
    \cup {[kind |-> "response", status |-> s, json |-> TRUE, version |-> v] :
            s \in ProbeStatuses, v \in {NoneV} \cup ProbeVersions}

HealthOutcomes ==
    {NoResponse(k) : k \in {"build_error", "sign_error", "transport_error"}}
    \cup {[kind |-> "response", status |-> s, json |-> FALSE, version |-> NoneV] :
            s \in HealthStatuses}

NoOutcome == NoResponse("none")

----------------------------------------------------------------------------
(* get and get_version *)

HttpRequest(base_url, http_auth, aws_auth, region, path) ==
    [base |-> base_url, path |-> path, basic |-> http_auth,
     signed |-> aws_auth # "none", region |-> region]

\* get (lines 304-332): the request is built, signed when a credentials
\* provider is present, and handed to client.send
Get(base_url, http_auth, aws_auth, region, outcome, path) ==
    LET request == HttpRequest(base_url, http_auth, aws_auth, region, path) IN
    IF outcome.kind = "build_error"
    THEN [ok |-> FALSE, err |-> "BuildError", status |-> 0, sent |-> <<>>]
    ELSE IF aws_auth # "none" /\ outcome.kind = "sign_error"
    THEN [ok |-> FALSE, err |-> "SignError", status |-> 0, sent |-> <<>>]
    ELSE IF outcome.kind # "response"
    THEN [ok |-> FALSE, err |-> "TransportError", status |-> 0, sent |-> <<request>>]
    ELSE [ok |-> TRUE, err |-> "none", status |-> outcome.status, sent |-> <<request>>]

\* get_version (lines 270-302): the status of the response is dropped
\* (line 297) and the body alone decides
GetVersion(base_url, http_auth, aws_auth, region, outcome) ==
    IF outcome.kind = "client_error"
    THEN [ok |-> FALSE, version |-> NoneV, sent |-> <<>>]
    ELSE LET response == Get(base_url, http_auth, aws_auth, region, outcome, VersionPath) IN
         IF ~response.ok
         THEN [ok |-> FALSE, version |-> NoneV, sent |-> response.sent]
         ELSE IF ~outcome.json
         THEN [ok |-> FALSE, version |-> NoneV, sent |-> response.sent]
         ELSE IF ~IsSome(outcome.version)
         THEN [ok |-> FALSE, version |-> NoneV, sent |-> response.sent]
         ELSE [ok |-> TRUE, version |-> outcome.version, sent |-> response.sent]

----------------------------------------------------------------------------
(* The version of one parse_config call (lines 129-174) *)

\* faulty variant: the latest version is assumed whatever the legacy flag
AssumedLatest(suppress_type_name) == 8

\* assumed_version (line 158)
AssumedVersion(suppress_type_name) == IF suppress_type_name THEN 6 ELSE 8

ExplicitVersion(api_version) ==
    CASE api_version = "V6" -> 6
      [] api_version = "V7" -> 7
      [] api_version = "V8" -> 8

\* faulty variant: the resolved version is not written back to the slot
StoreVersionDropped(slot, ver) == slot

\* *version = Some(ver) (line 172)
StoreVersion(slot, ver) == ver

ResolveVersion(cfg, slot, base_url, http_auth, aws_auth, outcome) ==
    IF IsSome(slot)
    THEN [version |-> slot, slot |-> slot, probed |-> FALSE, sent |-> <<>>]
    ELSE IF cfg.api_version # "Auto"
    THEN [version |-> ExplicitVersion(cfg.api_version),
          slot |-> StoreVersion(slot, ExplicitVersion(cfg.api_version)),
          probed |-> FALSE, sent |-> <<>>]
    ELSE LET got == GetVersion(base_url, http_auth, aws_auth, cfg.region, outcome)
             ver == IF got.ok THEN got.version
                    ELSE AssumedVersion(cfg.suppress_type_name)
         IN [version |-> ver, slot |-> StoreVersion(slot, ver),
             probed |-> TRUE, sent |-> got.sent]

\* faulty variant: the legacy flag is ignored
SuppressByVersionOnly(flag, ver) == ver >= 7

\* suppress_type_name (lines 177-182)
SuppressTypeName(flag, ver) == IF flag THEN flag ELSE ver >= 7

----------------------------------------------------------------------------
(* parse_config (lines 46-205) *)

NoCommon ==
    [base_url |-> <<>>, bulk_uri |-> <<>>, http_auth |-> NoAuth, aws_auth |-> "none",
     region |-> "none", query_params |-> <<>>, suppress_type_name |-> FALSE]

Failure(err, slot) ==
    [err |-> err, common |-> NoCommon, version |-> NoneV, slot |-> slot,
     probed |-> FALSE, sent |-> <<>>]

\* everything after the host test (lines 64-205)
ParseValidated(cfg, endpoint, slot, env) ==
    LET chosen == ChooseOne(Authorization(cfg), UriSerdeAuth(endpoint))
        base_url == TrimEndSlashes(UriSerdeUri(endpoint))
        aws == AwsAuth(cfg, env.creds_ok)
        query_params == MergeQuery(cfg)
        ver == ResolveVersion(cfg, slot, base_url, chosen.auth, aws.aws, env.probe)
    IN IF chosen.err THEN Failure("AuthConflict", slot)
       ELSE IF aws.err # "none" THEN Failure(aws.err, slot)
       ELSE IF cfg.fatal = "mode" THEN Failure("ModeError", slot)
       ELSE IF cfg.fatal = "tls" THEN Failure("TlsError", slot)
       ELSE [err |-> "none",
             common |-> [base_url |-> base_url,
                         bulk_uri |-> BulkUrl(base_url, query_params, env.order),
                         http_auth |-> chosen.auth,
                         aws_auth |-> aws.aws,
                         region |-> cfg.region,
                         query_params |-> query_params,
                         suppress_type_name |->
                             SuppressTypeName(cfg.suppress_type_name, ver.version)],
             version |-> ver.version, slot |-> ver.slot,
             probed |-> ver.probed, sent |-> ver.sent]

\* faulty variant: the host is tested after the rest of the resolution
ParseConfigLateValidation(cfg, endpoint, slot, env) ==
    LET r == ParseValidated(cfg, endpoint, slot, env) IN
    IF r.err = "none" /\ ValidateHost(endpoint) # "ok"
    THEN [r EXCEPT !.err = ValidateHost(endpoint), !.common = NoCommon]
    ELSE r

ParseConfig(cfg, endpoint, slot, env) ==
    IF ValidateHost(endpoint) # "ok" THEN Failure(ValidateHost(endpoint), slot)
    ELSE ParseValidated(cfg, endpoint, slot, env)

----------------------------------------------------------------------------
(* healthcheck (lines 243-259) *)

\* faulty variant: every 2xx status counts as healthy
HealthStatusAnySuccess(status) ==
    IF status \in 200..299 THEN "Ok" ELSE "UnexpectedStatus"

\* the match on the response's status (lines 256-257)
HealthStatus(status) == IF status = 200 THEN "Ok" ELSE "UnexpectedStatus"

NoHealth == [idx |-> 0, result |-> "none", status |-> 0, sent |-> <<>>, outcome |-> NoOutcome]

Healthcheck(common, outcome) ==
    LET response == Get(common.base_url, common.http_auth, common.aws_auth,
                        common.region, outcome, HealthPath)
    IN IF ~response.ok
       THEN [result |-> response.err, status |-> 0, sent |-> response.sent]
       ELSE [result |-> HealthStatus(response.status), status |-> response.status,
             sent |-> response.sent]

----------------------------------------------------------------------------
(* Configurations *)

SeqUpTo(S, n) == UNION {[1..k -> S] : k \in 0..n}

Option(S) == {<<>>} \cup {<<x>> : x \in S}

ApiVersions == {"V6", "V7", "V8", "Auto"}

NoConfig ==
    [endpoint |-> <<>>, endpoints |-> <<>>, auth |-> "none", region |-> "none",
     api_version |-> "Auto", suppress_type_name |-> FALSE, fatal |-> "none",
     query |-> <<>>, pipeline |-> <<>>, timeout_secs |-> <<>>]

\* configurations that vary the endpoints, the authentication and the version
EndpointConfigs ==
    {[NoConfig EXCEPT !.endpoint = e, !.endpoints = es, !.auth = a, !.region = r,
                      !.api_version = v, !.suppress_type_name = s, !.fatal = f] :
        e \in Option(EndpointStrings), es \in SeqUpTo(EndpointStrings, MaxEndpoints),
        a \in {"none", "basic", "aws"}, r \in {"none", "us-east-1"},
        v \in ApiVersions, s \in BOOLEAN, f \in {"none", "mode", "tls"}}

QueryMaps ==
    {<<>>,
     (<<"a">> :> <<"1">>),
     (STimeout :> <<"9", "s">>) @@ (SPipeline :> <<"z">>),
     (STimeout :> <<"1">>) @@ (<<"a">> :> <<"x", " ", "1">>),
     (<<"a", "&", "b">> :> <<"1", "=", "2">>)}

Pipelines == {<<"p", "1">>, <<"x", "&", "p">>}

TimeoutSettings == {5, 30}

\* configurations that vary the query parameters, the pipeline and the timeout
QueryConfigs ==
    {[NoConfig EXCEPT !.endpoints = <<e>>, !.api_version = "V7", !.query = q,
                      !.pipeline = p, !.timeout_secs = t] :
        e \in {"http://h1:9200", "http://u:p@h2:9200/"}, q \in QueryMaps,
        p \in Option(Pipelines), t \in Option(TimeoutSettings)}

Configs == EndpointConfigs \cup QueryConfigs

----------------------------------------------------------------------------
(* parse_many (lines 208-232) *)

\* faulty variant: the deprecated endpoint silently wins over the list
EndpointCheckPreferDeprecated(cfg) ==
    IF cfg.endpoint # <<>> THEN "single"
    ELSE IF cfg.endpoints = <<>> THEN "EndpointRequired" ELSE "many"

\* which branch of parse_many the configuration takes (lines 213-224)
EndpointCheck(cfg) ==
    IF cfg.endpoint # <<>>
    THEN IF cfg.endpoints = <<>> THEN "single" ELSE "EndpointsExclusive"
    ELSE IF cfg.endpoints = <<>> THEN "EndpointRequired" ELSE "many"

\* faulty variant: the slot outlives the call
KeepSlot(old) == old

\* let mut version = None (line 212)
InitSlot(old) == NoneV

Init ==
    /\ pc = "idle"
    /\ calls = 0
    /\ config = NoConfig
    /\ todo = <<>>
    /\ version = NoneV
    /\ commons = <<>>
    /\ resolved = <<>>
    /\ probes = 0
    /\ sent = <<>>
    /\ lastProbe = NoOutcome
    /\ result = "pending"
    /\ hc = NoHealth

\* parse_many is called: the version slot is created and the endpoint
\* options are checked
ParseManyBegin ==
    /\ pc = "idle"
    /\ calls < MaxCalls
    /\ \E cfg \in Configs :
        /\ config' = cfg
        /\ IF EndpointCheck(cfg) \in {"single", "many"}
           THEN /\ pc' = "resolving"
                /\ result' = "pending"
                /\ todo' = IF EndpointCheck(cfg) = "single" THEN cfg.endpoint
                           ELSE cfg.endpoints
           ELSE /\ pc' = "done"
                /\ result' = EndpointCheck(cfg)
                /\ todo' = <<>>
    /\ calls' = calls + 1
    /\ version' = InitSlot(version)
    /\ UNCHANGED <<commons, resolved, probes, sent, lastProbe, hc>>

\* one parse_config call of parse_many, for the next endpoint; the call
\* returns when an endpoint fails or the last one is resolved
ParseConfigStep ==
    /\ pc = "resolving"
    /\ \E creds_ok \in BOOLEAN, probe \in ProbeOutcomes, order \in KeyOrders(MergeQuery(config)) :
        LET endpoint == todo[Len(commons) + 1]
            env == [creds_ok |-> creds_ok, probe |-> probe, order |-> order]
            r == ParseConfig(config, endpoint, version, env)
        IN /\ probe.kind = "sign_error" => config.auth = "aws"
           /\ IF r.err # "none"
              THEN /\ result' = r.err
                   /\ pc' = "done"
                   /\ commons' = <<>>
                   /\ UNCHANGED resolved
              ELSE /\ commons' = Append(commons, r.common)
                   /\ resolved' = Append(resolved, r.version)
                   /\ IF Len(commons) + 1 = Len(todo)
                      THEN pc' = "done" /\ result' = "Ok"
                      ELSE UNCHANGED <<pc, result>>
           /\ version' = r.slot
           /\ probes' = IF r.probed THEN probes + 1 ELSE probes
           /\ sent' = sent \o r.sent
           /\ lastProbe' = IF r.probed THEN probe ELSE lastProbe
    /\ UNCHANGED <<calls, config, todo, hc>>

\* healthcheck of one of the descriptors parse_many returned
HealthcheckCall ==
    /\ pc = "done"
    /\ result = "Ok"
    /\ \E i \in DOMAIN commons, outcome \in HealthOutcomes :
        /\ outcome.kind = "sign_error" => commons[i].aws_auth # "none"
        /\ hc' = [idx |-> i, outcome |-> outcome] @@ Healthcheck(commons[i], outcome)
    /\ UNCHANGED <<pc, calls, config, todo, version, commons, resolved, probes, sent,
                   lastProbe, result>>

\* the caller is done with the result of parse_many
Return ==
    /\ pc = "done"
    /\ pc' = "idle"
    /\ config' = NoConfig
    /\ todo' = <<>>
    /\ commons' = <<>>
    /\ resolved' = <<>>
    /\ probes' = 0
    /\ sent' = <<>>
    /\ lastProbe' = NoOutcome
    /\ result' = "pending"
    /\ hc' = NoHealth
    /\ UNCHANGED <<calls, version>>

Next == ParseManyBegin \/ ParseConfigStep \/ HealthcheckCall \/ Return

Spec == Init /\ [][Next]_vars

----------------------------------------------------------------------------
(* Properties *)

\* the probe did not deliver a version: no request went out, the transport
\* failed, or the body was malformed or carried no version
ProbeGaveNoVersion(o) == o.kind # "response" \/ ~o.json \/ o.version = NoneV

Fallback == IF config.suppress_type_name THEN 6 ELSE 8

\* C1: within one parse_many call get_version is invoked at most once and at
\* most one probe request is sent, however many endpoints there are; with
\* api_version = Auto, as soon as one endpoint is resolved it has been invoked
\* exactly once, whether it succeeded or failed; and every descriptor of the
\* call is built from the same resolved version, the one held in the slot.
C1_SingleProbeSharedVersion ==
    /\ probes <= 1
    /\ Len(sent) <= probes
    /\ \A i \in DOMAIN sent : sent[i].path = VersionPath
    /\ (config.api_version = "Auto" /\ Len(resolved) >= 1) => probes = 1
    /\ \A i \in DOMAIN resolved : resolved[i] = resolved[1] /\ resolved[i] = version

C1_TwoEndpointsOneFailedProbe ==
    /\ pc = "done" /\ result = "Ok"
    /\ config.api_version = "Auto"
    /\ Len(commons) = 2
    /\ probes = 1
    /\ lastProbe.kind = "transport_error"
    /\ resolved[1] = resolved[2]

\* C2: parse_many returns EndpointsExclusive when both the deprecated endpoint
\* and a non-empty endpoints list are configured, EndpointRequired when neither
\* is, and in both cases no endpoint is resolved and no probe is issued.
C2_EndpointOptionsChecked ==
    pc # "idle" =>
        /\ (config.endpoint # <<>> /\ config.endpoints # <<>>) =>
                /\ pc = "done" /\ result = "EndpointsExclusive"
                /\ commons = <<>> /\ resolved = <<>> /\ probes = 0 /\ sent = <<>>
        /\ (config.endpoint = <<>> /\ config.endpoints = <<>>) =>
                /\ pc = "done" /\ result = "EndpointRequired"
                /\ commons = <<>> /\ resolved = <<>> /\ probes = 0 /\ sent = <<>>

C2_BothEndpointOptionsGiven ==
    /\ pc = "done"
    /\ result = "EndpointsExclusive"
    /\ config.endpoint = <<"http://h1:9200">>
    /\ config.endpoints = <<"http://h1:9200">>
    /\ config.api_version = "Auto"

\* C3: with api_version = Auto, when get_version fails (no response, or a body
\* that is malformed or lacks the version) the parse_config call that probed
\* still succeeds, its version is 6 under suppress_type_name and 8 otherwise,
\* and parse_many returns Ok unless a later endpoint fails to resolve.
C3_ProbeFailureFallsBack ==
    (probes >= 1 /\ ProbeGaveNoVersion(lastProbe)) =>
        /\ config.api_version = "Auto"
        /\ Len(resolved) >= 1
        /\ resolved[1] = (IF config.suppress_type_name THEN 6 ELSE 8)
        /\ (pc = "done" /\ Len(resolved) = Len(todo)) => result = "Ok"

C3_FailedProbeSuppressed ==
    /\ pc = "done" /\ result = "Ok"
    /\ probes = 1
    /\ lastProbe.kind = "transport_error"
    /\ config.suppress_type_name
    /\ resolved = <<6>>

\* C10: the descriptor suppresses the type name whenever the legacy flag of the
\* configuration is set, whatever the resolved version; without the flag it
\* does so exactly when the resolved version is at least 7.
C10_SuppressTypeName ==
    \A i \in DOMAIN commons :
        /\ config.suppress_type_name => commons[i].suppress_type_name
        /\ ~config.suppress_type_name =>
                (commons[i].suppress_type_name <=> resolved[i] >= 7)

C10_FlagSetOldVersion ==
    /\ pc = "done" /\ result = "Ok"
    /\ config.suppress_type_name
    /\ config.api_version = "Auto"
    /\ lastProbe.kind = "response" /\ lastProbe.version = 6
    /\ resolved = <<6>>
    /\ commons[1].suppress_type_name

\* C4: no descriptor carries both basic credentials and an AWS credentials
\* provider; a configuration that supplies both fails to resolve.
C4_NeverBasicAndAws ==
    \A i \in DOMAIN commons :
        ~(commons[i].http_auth # NoAuth /\ commons[i].aws_auth # "none")

\* C5: under api_version = Auto the version is taken from the probe only when
\* the response has a success status and its body carries a version; in every
\* other case the fallback version is used.
C5_NonSuccessStatusIsFailure ==
    (probes = 1 /\ Len(resolved) >= 1) =>
        resolved[1] = (IF /\ lastProbe.kind = "response"
                          /\ lastProbe.status \in 200..299
                          /\ lastProbe.json
                          /\ lastProbe.version # NoneV
                       THEN lastProbe.version
                       ELSE Fallback)

----------------------------------------------------------------------------
(* Reading a query string back, as the receiving server does *)

HasChar(s, c) == \E i \in DOMAIN s : s[i] = c

FirstIndex(s, c) == CHOOSE i \in DOMAIN s : s[i] = c /\ \A j \in 1..(i - 1) : s[j] # c

RECURSIVE SplitOn(_, _)
SplitOn(s, c) ==
    IF ~HasChar(s, c) THEN <<s>>
    ELSE <<SubSeq(s, 1, FirstIndex(s, c) - 1)>>
            \o SplitOn(SubSeq(s, FirstIndex(s, c) + 1, Len(s)), c)

Unhex(a, b) ==
    CASE <<a, b>> = <<"2", "6">> -> "&"
      [] <<a, b>> = <<"3", "D">> -> "="
      [] <<a, b>> = <<"2", "B">> -> "+"
      [] <<a, b>> = <<"2", "5">> -> "%"
      [] <<a, b>> = <<"2", "F">> -> "/"
      [] <<a, b>> = <<"2", "0">> -> " "
      [] OTHER -> "?"

RECURSIVE PercentDecode(_)
PercentDecode(s) ==
    IF s = <<>> THEN <<>>
    ELSE IF Head(s) = "+" THEN <<" ">> \o PercentDecode(Tail(s))
    ELSE IF Head(s) = "%" /\ Len(s) >= 3
    THEN <<Unhex(s[2], s[3])>> \o PercentDecode(SubSeq(s, 4, Len(s)))
    ELSE <<Head(s)>> \o PercentDecode(Tail(s))

\* the text after the first '?'
QueryOf(uri) == IF HasChar(uri, "?") THEN SubSeq(uri, FirstIndex(uri, "?") + 1, Len(uri))
                ELSE <<>>

DecodePair(p) ==
    IF HasChar(p, "=")
    THEN <<PercentDecode(SubSeq(p, 1, FirstIndex(p, "=") - 1)),
           PercentDecode(SubSeq(p, FirstIndex(p, "=") + 1, Len(p)))>>
    ELSE <<PercentDecode(p), <<>>>>

\* the name/value pairs of a query string, in order
QueryPairs(q) ==
    IF q = <<>> THEN <<>>
    ELSE [i \in DOMAIN SplitOn(q, "&") |-> DecodePair(SplitOn(q, "&")[i])]

TimeoutText(cfg) ==
    CASE cfg.timeout_secs = <<>> -> <<"6", "0", "s">>
      [] cfg.timeout_secs = <<5>> -> <<"5", "s">>
      [] cfg.timeout_secs = <<30>> -> <<"3", "0", "s">>

\* C6: the merged query parameters are the static ones, overridden by
\* timeout = "<seconds>s", overridden by pipeline = <name> when a pipeline is
\* configured; and the query string of the bulk URL reads back as exactly
\* those pairs, each key once.
C6_MergedQueryParams ==
    \A i \in DOMAIN commons :
        LET m == commons[i].query_params
            pairs == QueryPairs(QueryOf(commons[i].bulk_uri))
        IN /\ DOMAIN m = (DOMAIN config.query) \cup {STimeout}
                            \cup (IF config.pipeline = <<>> THEN {} ELSE {SPipeline})
           /\ m[STimeout] = TimeoutText(config)
           /\ config.pipeline # <<>> => m[SPipeline] = config.pipeline[1]
           /\ \A k \in (DOMAIN config.query) \ {STimeout, SPipeline} : m[k] = config.query[k]
           /\ (SPipeline \in DOMAIN config.query /\ config.pipeline = <<>>) =>
                    m[SPipeline] = config.query[SPipeline]
           /\ Len(pairs) = Cardinality(DOMAIN m)
           /\ {pairs[j] : j \in DOMAIN pairs} = {<<k, m[k]>> : k \in DOMAIN m}

C6_StaticTimeoutAndPipelineOverridden ==
    /\ pc = "done" /\ result = "Ok"
    /\ config.query = (STimeout :> <<"9", "s">>) @@ (SPipeline :> <<"z">>)
    /\ config.pipeline = <<<<"x", "&", "p">>>>
    /\ config.timeout_secs = <<30>>
    /\ commons[1].query_params[STimeout] = <<"3", "0", "s">>
    /\ commons[1].query_params[SPipeline] = <<"x", "&", "p">>

\* C7: healthcheck calls get once for /_cluster/health on the descriptor's
\* base URL, so at most one request is sent and none is repeated; it returns
\* Ok exactly when a response with status 200 arrives, UnexpectedStatus with
\* that status for any other response, and the transport error when sending
\* fails.
C7_HealthcheckStatus ==
    hc.result # "none" =>
        /\ Len(hc.sent) <= 1
        /\ \A j \in DOMAIN hc.sent :
                /\ hc.sent[j].path = HealthPath
                /\ hc.sent[j].base = commons[hc.idx].base_url
        /\ hc.outcome.kind \in {"response", "transport_error"} => Len(hc.sent) = 1
        /\ hc.result = "Ok" <=> (hc.outcome.kind = "response" /\ hc.outcome.status = 200)
        /\ (hc.outcome.kind = "response" /\ hc.outcome.status # 200) =>
                (hc.result = "UnexpectedStatus" /\ hc.status = hc.outcome.status)
        /\ hc.outcome.kind = "transport_error" => hc.result = "TransportError"

C7_CreatedIsUnexpected ==
    /\ hc.result = "UnexpectedStatus"
    /\ hc.status = 201
    /\ Len(hc.sent) = 1

InvalidEndpointErrors == {"InvalidHost", "HostMustIncludeHostname"}

\* C8 as stated: whenever parse_many fails with InvalidHost or
\* HostMustIncludeHostname, no probe and no other request was issued during
\* the call.
C8_NoRequestBeforeAnyValidationFailure ==
    (pc = "done" /\ result \in InvalidEndpointErrors) => (probes = 0 /\ sent = <<>>)

\* C8 amended: the parse_config call that fails with InvalidHost or
\* HostMustIncludeHostname issues no probe and no request and leaves the
\* version slot alone; what was issued for earlier endpoints stays issued.
C8_FailingEndpointIssuesNothing ==
    [][(pc = "resolving" /\ result' \in InvalidEndpointErrors) =>
            (probes' = probes /\ sent' = sent /\ version' = version)]_vars

C8_InvalidEndpointAfterProbe ==
    /\ pc = "done"
    /\ result = "InvalidHost"
    /\ Len(resolved) = 1
    /\ probes = 1
    /\ Len(sent) = 1

VersionOf(api_version) ==
    CASE api_version = "V6" -> 6
      [] api_version = "V7" -> 7
      [] api_version = "V8" -> 8
      [] OTHER -> NoneV

\* C9: every parse_many call starts with an empty version slot; with
\* api_version = Auto every call that resolves an endpoint runs its own probe
\* and its version is the one that probe reported or the fallback; with an
\* explicit api_version no probe is issued and the version is the configured
\* 6, 7 or 8.
C9_CallsAreIndependent ==
    pc # "idle" =>
        /\ (pc = "resolving" /\ resolved = <<>>) => version = NoneV
        /\ (config.api_version = "Auto" /\ Len(resolved) >= 1) =>
                /\ probes = 1
                /\ \A i \in DOMAIN resolved :
                        resolved[i] \in {Fallback} \cup ({lastProbe.version} \ {NoneV})
        /\ config.api_version # "Auto" =>
                /\ probes = 0 /\ sent = <<>>
                /\ \A i \in DOMAIN resolved : resolved[i] = VersionOf(config.api_version)

C9_SecondCallProbesAgain ==
    /\ calls = 2
    /\ pc = "done" /\ result = "Ok"
    /\ config.api_version = "Auto"
    /\ probes = 1
    /\ lastProbe.version = 7
    /\ resolved = <<7>>

====
